---- MODULE Spec2Model ----
(***************************************************************************)
(* Model of src/app.py, the ply cutting plan generator.                    *)
(*                                                                         *)
(* The script runs top to bottom once per interaction: it reads the kerf,  *)
(* one ply size and one text area per thickness, parses and groups the     *)
(* panel lines, and then, for every thickness that has panels, expands the *)
(* groups into rectangles, packs them with rectpack's                      *)
(* newPacker(rotation=True) over 100 bins, distributes rect_list() over    *)
(* the sheets, computes the waste of every sheet and appends a summary     *)
(* row.  newPacker's defaults are the offline packer, bin selection "bin   *)
(* best fit", the MaxRectsBssf placement and a sort by decreasing area;    *)
(* they are modelled by what the library does for these calls.             *)
(***************************************************************************)
EXTENDS Integers, Sequences, FiniteSets

(***************************************************************************)
(* Bounds of the model, and the input values it draws from.                *)
(***************************************************************************)
MaxLines == 2

NumBins == 100

KerfMin == 0

KerfDefault == 3

Kerfs == {KerfMin, KerfDefault}

Thicknesses == <<6, 12, 18>>

PlyOptions == {<<1220, 2440>>, <<1830, 2440>>, <<1830, 3050>>}

(* A line of a text area after lower(), the removal of "mm" and the split  *)
(* on "x": a sequence of fields, each of which int() accepts or rejects.   *)
IntField(n) == [isint |-> TRUE, val |-> n]

BadField == [isint |-> FALSE, val |-> 0]

Lines == { <<IntField(600), IntField(400)>>,
           <<IntField(2440), IntField(1220)>>,
           <<IntField(-1), IntField(100)>>,
           <<IntField(0), IntField(100)>>,
           <<IntField(600), BadField>>,
           <<IntField(600)>> }

(***************************************************************************)
(* Sequence helpers.                                                       *)
(***************************************************************************)
SeqsUpTo(S, n) == UNION { [1..k -> S] : k \in 0..n }

RECURSIVE SumSeq(_)
SumSeq(s) == IF s = <<>> THEN 0 ELSE Head(s) + SumSeq(Tail(s))

RECURSIVE Concat(_)
Concat(ss) == IF ss = <<>> THEN <<>> ELSE Head(ss) \o Concat(Tail(ss))

Min2(a, b) == IF a <= b THEN a ELSE b

NoFit == -1

Rotation == TRUE

(***************************************************************************)
(* rectpack geometry: a rectangle is [x, y, width, height]; left = x,      *)
(* right = x + width, bottom = y, top = y + height.                        *)
(***************************************************************************)
Intersects(a, b) ==
    /\ ~ ( \/ a.y > b.y + b.height
           \/ a.y + a.height < b.y
           \/ a.x > b.x + b.width
           \/ a.x + a.width < b.x )
    /\ ~ ( \/ a.y = b.y + b.height
           \/ a.y + a.height = b.y
           \/ a.x = b.x + b.width
           \/ a.x + a.width = b.x )

Contains(a, b) ==
    /\ b.y >= a.y
    /\ b.x >= a.x
    /\ b.y + b.height <= a.y + a.height
    /\ b.x + b.width <= a.x + a.width

MaxRect(x, y, w, h) == [x |-> x, y |-> y, width |-> w, height |-> h]

(* MaxRectsBssf._rect_fitness: the shorter leftover side, or no fit.       *)
RectFitness(m, w, h) ==
    IF w > m.width \/ h > m.height THEN NoFit
    ELSE Min2(m.width - w, m.height - h)

Candidates(max_rects, w, h) ==
    LET fits == SelectSeq(max_rects, LAMBDA m : RectFitness(m, w, h) # NoFit)
    IN  [i \in 1..Len(fits) |->
            [fit |-> RectFitness(fits[i], w, h), w |-> w, h |-> h, m |-> fits[i]]]

(* min(..., key=first_item): the first candidate of least fitness.         *)
FirstMin(c) ==
    c[CHOOSE i \in 1..Len(c) :
        \A j \in 1..Len(c) : /\ c[j].fit >= c[i].fit
                             /\ (j < i => c[j].fit > c[i].fit)]

(* MaxRects._select_position: the normal orientation over every free       *)
(* rectangle, then the rotated one.                                        *)
SelectPosition(max_rects, w, h) ==
    LET fit == Candidates(max_rects, w, h)
               \o (IF Rotation THEN Candidates(max_rects, h, w) ELSE <<>>)
    IN  IF fit = <<>>
        THEN [found |-> FALSE, fit |-> NoFit, x |-> 0, y |-> 0, width |-> 0, height |-> 0]
        ELSE LET best == FirstMin(fit)
             IN  [found |-> TRUE, fit |-> best.fit, x |-> best.m.x, y |-> best.m.y,
                  width |-> best.w, height |-> best.h]

(* MaxRects._generate_splits: what is left of m around r.                  *)
GenerateSplits(m, r) ==
    (IF r.x > m.x
       THEN <<MaxRect(m.x, m.y, r.x - m.x, m.height)>> ELSE <<>>)
    \o (IF r.x + r.width < m.x + m.width
       THEN <<MaxRect(r.x + r.width, m.y, m.x + m.width - (r.x + r.width), m.height)>>
       ELSE <<>>)
    \o (IF r.y + r.height < m.y + m.height
       THEN <<MaxRect(m.x, r.y + r.height, m.width, m.y + m.height - (r.y + r.height))>>
       ELSE <<>>)
    \o (IF r.y > m.y
       THEN <<MaxRect(m.x, m.y, m.width, r.y - m.y)>> ELSE <<>>)

(* A _split that leaves the free rectangles as they were. *)
SplitNothing(max_rects, rect) == max_rects

(* MaxRects._split *)
Split(max_rects, rect) ==
    Concat([i \in 1..Len(max_rects) |->
               IF Intersects(max_rects[i], rect)
               THEN GenerateSplits(max_rects[i], rect)
               ELSE <<max_rects[i]>>])

(* MaxRects._remove_duplicates: over the pairs in list order, the second   *)
(* if the first contains it, else the first if the second contains it;     *)
(* every free rectangle equal to a contained one is dropped.               *)
RemoveDuplicates(max_rects) ==
    LET n == Len(max_rects)
        contained ==
            { max_rects[j] : j \in { j \in 1..n :
                  \E i \in 1..(j - 1) : Contains(max_rects[i], max_rects[j]) } }
            \cup
            { max_rects[i] : i \in { i \in 1..n :
                  \E j \in (i + 1)..n : /\ ~ Contains(max_rects[i], max_rects[j])
                                        /\ Contains(max_rects[j], max_rects[i]) } }
    IN  SelectSeq(max_rects, LAMBDA m : m \notin contained)

(***************************************************************************)
(* One bin (a MaxRectsBssf surface of the ply size).                       *)
(***************************************************************************)
(* A bin created with the ply's sides exchanged. *)
EmptyBinSwapped(W, H) == [rectangles |-> <<>>, max_rects |-> <<MaxRect(0, 0, H, W)>>]

EmptyBin(W, H) == [rectangles |-> <<>>, max_rects |-> <<MaxRect(0, 0, W, H)>>]

(* MaxRects.fitness *)
BinFitness(bin, w, h) == SelectPosition(bin.max_rects, w, h).fit

(* MaxRects.add_rect; the bin is unchanged when nothing fits.              *)
BinAddRect(bin, w, h, rid) ==
    LET sel == SelectPosition(bin.max_rects, w, h)
        rect == [x |-> sel.x, y |-> sel.y, width |-> sel.width,
                 height |-> sel.height, rid |-> rid]
    IN  IF ~ sel.found THEN bin
        ELSE [rectangles |-> Append(bin.rectangles, rect),
              max_rects |-> RemoveDuplicates(Split(bin.max_rects, rect))]

(* PackingAlgorithm._fits_surface *)
FitsSurface(W, H, w, h) ==
    LET swap == Rotation /\ (w > W \/ h > H)
        ww == IF swap THEN h ELSE w
        hh == IF swap THEN w ELSE h
    IN  ~ (ww > W \/ hh > H)

(***************************************************************************)
(* The packer: newPacker(rotation=True), offline, bin best fit.  Its state *)
(* is the rectangles given to add_rect, the opened bins in opening order,  *)
(* the number of unopened bins and whether an assertion of the library     *)
(* failed.                                                                 *)
(***************************************************************************)
NewPacker == [avail_rect |-> <<>>, open_bins |-> <<>>, empty |-> 0, error |-> FALSE]

(* SORT_AREA: sorted(rectlist, reverse=True, key=area), a stable sort.     *)
RECURSIVE SortArea(_)
SortArea(rs) ==
    IF rs = <<>> THEN <<>>
    ELSE LET last == rs[Len(rs)]
             init == SortArea(SubSeq(rs, 1, Len(rs) - 1))
             area(r) == r[1] * r[2]
             k == Cardinality({ i \in 1..Len(init) : area(init[i]) >= area(last) })
         IN  SubSeq(init, 1, k) \o <<last>> \o SubSeq(init, k + 1, Len(init))

(* PackerBBFMixin.add_rect, second part: open unopened bins until one      *)
(* takes the rectangle; _new_open_bin gives up when the rectangle fits no  *)
(* empty bin, and fits_inside asserts positive sides.                      *)
RECURSIVE NewBinLoop(_, _, _, _, _, _)
NewBinLoop(p, W, H, w, h, rid) ==
    IF p.empty = 0 THEN p
    ELSE IF ~ (w > 0 /\ h > 0) THEN [p EXCEPT !.error = TRUE]
    ELSE IF ~ FitsSurface(W, H, w, h) THEN p
    ELSE LET new_bin == BinAddRect(EmptyBin(W, H), w, h, rid)
             q == [p EXCEPT !.open_bins = Append(@, new_bin), !.empty = @ - 1]
         IN  IF new_bin.rectangles # <<>> THEN q
             ELSE NewBinLoop(q, W, H, w, h, rid)

(* PackerBBFMixin.add_rect: the open bin of least fitness (the first of    *)
(* them), else a new bin.  fitness asserts positive sides.                 *)
PackerAddRect(p, W, H, w, h, rid) ==
    LET n == Len(p.open_bins)
        fit == { i \in 1..n : BinFitness(p.open_bins[i], w, h) # NoFit }
        best == CHOOSE i \in fit :
                    \A j \in fit :
                        /\ BinFitness(p.open_bins[j], w, h) >= BinFitness(p.open_bins[i], w, h)
                        /\ (j < i => BinFitness(p.open_bins[j], w, h)
                                        > BinFitness(p.open_bins[i], w, h))
    IN  IF p.error THEN p
        ELSE IF n > 0 /\ ~ (w > 0 /\ h > 0) THEN [p EXCEPT !.error = TRUE]
        ELSE IF fit # {}
             THEN [p EXCEPT !.open_bins[best] = BinAddRect(@, w, h, rid)]
             ELSE NewBinLoop(p, W, H, w, h, rid)

(* PackerOffline.pack: the bins become available, the rectangles are       *)
(* sorted and added one by one.                                            *)
RECURSIVE PackAll(_, _, _, _)
PackAll(p, W, H, rs) ==
    IF rs = <<>> THEN p
    ELSE PackAll(PackerAddRect(p, W, H, rs[1][1], rs[1][2], rs[1][3]), W, H, Tail(rs))

Pack(rects, W, H, nbins) ==
    PackAll([NewPacker EXCEPT !.avail_rect = rects, !.empty = nbins],
            W, H, SortArea(rects))

(* Packer.rect_list: (bin index, x, y, width, height, rid) over the bins   *)
(* in opening order, counted from 0.                                       *)
RectList(p) ==
    Concat([b \in 1..Len(p.open_bins) |->
               [k \in 1..Len(p.open_bins[b].rectangles) |->
                   LET r == p.open_bins[b].rectangles[k]
                   IN  <<b - 1, r.x, r.y, r.width, r.height, r.rid>>]])

(***************************************************************************)
(* The script.                                                             *)
(***************************************************************************)
VARIABLES kerf, ply_sizes, panel_inputs, thickness_config, pc, cfg_i, loop_i,
          rectangles, original_dims, packer, sheets, sheet_waste, summary, error

vars == <<kerf, ply_sizes, panel_inputs, thickness_config, pc, cfg_i, loop_i,
          rectangles, original_dims, packer, sheets, sheet_waste, summary, error>>

ThkIdx == 1..Len(Thicknesses)

(* parse_input: a line gives a panel when it has exactly two fields and    *)
(* int() accepts both; every other line is skipped.                        *)
ParseLine(line) ==
    IF Len(line) = 2 /\ line[1].isint /\ line[2].isint
    THEN <<  <<line[1].val, line[2].val>>  >>
    ELSE <<>>

ParseInput(text) == Concat([i \in 1..Len(text) |-> ParseLine(text[i])])

(* A grouping that keeps one instance per distinct (w, h). *)
GroupedNoCount(pieces) ==
    LET first == SelectSeq([i \in 1..Len(pieces) |-> i],
                           LAMBDA i : \A j \in 1..(i - 1) : pieces[j] # pieces[i])
    IN  [k \in 1..Len(first) |-> <<pieces[first[k]][1], pieces[first[k]][2], 1>>]

(* grouped[(w, h)] += 1 over the pieces, then the (w, h, qty) triples in   *)
(* the order the keys were first seen.                                     *)
Grouped(pieces) ==
    LET first == SelectSeq([i \in 1..Len(pieces) |-> i],
                           LAMBDA i : \A j \in 1..(i - 1) : pieces[j] # pieces[i])
    IN  [k \in 1..Len(first) |->
            LET wh == pieces[first[k]]
            IN  <<wh[1], wh[2],
                  Cardinality({ i \in 1..Len(pieces) : pieces[i] = wh })>>]

(* The expansion loop: qty instances per triple, rid = len(original_dims). *)
RECURSIVE ExpandDims(_)
ExpandDims(pieces) ==
    IF pieces = <<>> THEN <<>>
    ELSE [q \in 1..pieces[1][3] |-> <<pieces[1][1], pieces[1][2]>>]
         \o ExpandDims(Tail(pieces))

ExpandRects(pieces, k) ==
    LET dims == ExpandDims(pieces)
    IN  [i \in 1..Len(dims) |-> <<dims[i][1] + k, dims[i][2] + k, i - 1>>]

(* sheets[bin_id].append((x, y, true_w, true_h, ow, oh)): the sheets in    *)
(* the order their bin is first seen in rect_list.                         *)
(* The sheet tuple with the kerf left in the placed sides. *)
TrueRectPadded(u, dims, k) ==
    <<u[2], u[3], u[4], u[5], dims[u[6] + 1][1], dims[u[6] + 1][2]>>

TrueRect(u, dims, k) ==
    <<u[2], u[3], u[4] - k, u[5] - k, dims[u[6] + 1][1], dims[u[6] + 1][2]>>

SheetsOf(used_rects, dims, k) ==
    LET first == SelectSeq([i \in 1..Len(used_rects) |-> i],
                     LAMBDA i : \A j \in 1..(i - 1) : used_rects[j][1] # used_rects[i][1])
    IN  [s \in 1..Len(first) |->
            LET bin_id == used_rects[first[s]][1]
                mine == SelectSeq(used_rects, LAMBDA u : u[1] = bin_id)
            IN  [sheet_id |-> bin_id,
                 rects |-> [i \in 1..Len(mine) |-> TrueRect(mine[i], dims, k)]]]

(* used_area += w * h over the sheet's tuples.                             *)
UsedArea(rects) == SumSeq([i \in 1..Len(rects) |-> rects[i][3] * rects[i][4]])

(* f"{v:.2f}" of v = (num / den) * 100: the hundredths of the percentage,  *)
(* rounded half to even; computed digit by digit to stay within TLC's      *)
(* integers.                                                               *)
Fmt2Pct(num, den) ==
    LET whole == num \div den
        r0 == num % den
        pct == (r0 * 100) \div den
        r1 == (r0 * 100) % den
        hun == (r1 * 100) \div den
        r2 == (r1 * 100) % den
        q == (whole * 100 + pct) * 100 + hun
    IN  IF 2 * r2 > den THEN q + 1
        ELSE IF 2 * r2 = den THEN q + (q % 2)
        ELSE q

(* Per sheet: waste = total_area - used_area and                           *)
(* waste_percent = (waste / total_area) * 100, shown with two decimals.    *)
SheetWaste(sheet, W, H) ==
    LET used_area == UsedArea(sheet.rects)
        total_area == W * H
        waste == total_area - used_area
    IN  [sheet_id |-> sheet.sheet_id, used_area |-> used_area,
         total_area |-> total_area, waste |-> waste,
         shown |-> Fmt2Pct(waste, total_area)]

(* The summary taking the waste of the last sheet drawn for the average. *)
ApproxWasteLastSheet(shs, W, H) ==
    Fmt2Pct(W * H - UsedArea(shs[Len(shs)].rects), W * H)

(* The "Approx Waste %" of the summary row: the sum over sheets.values()   *)
(* of (W*H - sum(w*h)) / (W*H) * 100, divided by len(sheets), shown with   *)
(* two decimals.                                                           *)
ApproxWaste(shs, W, H) ==
    Fmt2Pct(SumSeq([i \in 1..Len(shs) |-> W * H - UsedArea(shs[i].rects)]),
            W * H * Len(shs))

Init ==
    /\ kerf \in Kerfs
    /\ ply_sizes \in [ThkIdx -> PlyOptions]
    /\ \E tagged \in SeqsUpTo(ThkIdx \X Lines, MaxLines) :
          panel_inputs = [t \in ThkIdx |->
              LET mine == SelectSeq(tagged, LAMBDA e : e[1] = t)
              IN  [i \in 1..Len(mine) |-> mine[i][2]]]
    /\ thickness_config = <<>>
    /\ pc = "config"
    /\ cfg_i = 1
    /\ loop_i = 1
    /\ rectangles = <<>>
    /\ original_dims = <<>>
    /\ packer = NewPacker
    /\ sheets = <<>>
    /\ sheet_waste = <<>>
    /\ summary = <<>>
    /\ error = "none"

(* Lines 53-66, one thickness: parse, and keep a config when any panel     *)
(* was parsed.                                                             *)
BuildConfig ==
    /\ pc = "config"
    /\ LET pieces == ParseInput(panel_inputs[cfg_i])
           cfg == IF pieces = <<>> THEN thickness_config
                  ELSE Append(thickness_config,
                           [thk |-> Thicknesses[cfg_i],
                            ply_width |-> ply_sizes[cfg_i][1],
                            ply_height |-> ply_sizes[cfg_i][2],
                            pieces |-> Grouped(pieces)])
       IN  /\ thickness_config' = cfg
           /\ IF cfg_i < Len(Thicknesses)
              THEN cfg_i' = cfg_i + 1 /\ pc' = "config"
              ELSE cfg_i' = cfg_i /\ pc' = IF cfg = <<>> THEN "finish" ELSE "expand"
    /\ UNCHANGED <<kerf, ply_sizes, panel_inputs, loop_i, rectangles, original_dims,
                   packer, sheets, sheet_waste, summary, error>>

(* Lines 91-103. *)
ExpandPieces ==
    /\ pc = "expand"
    /\ rectangles' = ExpandRects(thickness_config[loop_i].pieces, kerf)
    /\ original_dims' = ExpandDims(thickness_config[loop_i].pieces)
    /\ pc' = "pack"
    /\ UNCHANGED <<kerf, ply_sizes, panel_inputs, thickness_config, cfg_i, loop_i,
                   packer, sheets, sheet_waste, summary, error>>

(* Lines 105-110: add_rect for every rectangle, add_bin 100 times, pack(). *)
(* An assertion of the library that fails ends the script.                 *)
PackRects ==
    /\ pc = "pack"
    /\ packer' = Pack(rectangles, thickness_config[loop_i].ply_width,
                      thickness_config[loop_i].ply_height, NumBins)
    /\ IF packer'.error
       THEN pc' = "error" /\ error' = "AssertionError"
       ELSE pc' = "collect" /\ error' = error
    /\ UNCHANGED <<kerf, ply_sizes, panel_inputs, thickness_config, cfg_i, loop_i,
                   rectangles, original_dims, sheets, sheet_waste, summary>>

(* Lines 112-117. *)
CollectSheets ==
    /\ pc = "collect"
    /\ sheets' = SheetsOf(RectList(packer), original_dims, kerf)
    /\ pc' = "draw"
    /\ UNCHANGED <<kerf, ply_sizes, panel_inputs, thickness_config, cfg_i, loop_i,
                   rectangles, original_dims, packer, sheet_waste, summary, error>>

(* Lines 121-160: the waste of every sheet. *)
DrawSheets ==
    /\ pc = "draw"
    /\ sheet_waste' = [i \in 1..Len(sheets) |->
                          SheetWaste(sheets[i], thickness_config[loop_i].ply_width,
                                     thickness_config[loop_i].ply_height)]
    /\ pc' = "summarise"
    /\ UNCHANGED <<kerf, ply_sizes, panel_inputs, thickness_config, cfg_i, loop_i,
                   rectangles, original_dims, packer, sheets, summary, error>>

(* Lines 162-167: the summary row; the division by len(sheets) raises      *)
(* ZeroDivisionError when there is no sheet.                               *)
AppendSummary ==
    /\ pc = "summarise"
    /\ IF Len(sheets) = 0
       THEN /\ pc' = "error"
            /\ error' = "ZeroDivisionError"
            /\ UNCHANGED <<summary, loop_i>>
       ELSE /\ summary' = Append(summary,
                  [thickness |-> thickness_config[loop_i].thk,
                   total_sheets |-> Len(sheets),
                   total_pieces |-> Len(original_dims),
                   approx_waste |-> ApproxWaste(sheets,
                                        thickness_config[loop_i].ply_width,
                                        thickness_config[loop_i].ply_height)])
            /\ loop_i' = loop_i + 1
            /\ pc' = IF loop_i < Len(thickness_config) THEN "expand" ELSE "finish"
            /\ error' = error
    /\ UNCHANGED <<kerf, ply_sizes, panel_inputs, thickness_config, cfg_i,
                   rectangles, original_dims, packer, sheets, sheet_waste>>

(* Lines 173-186: the PDF is closed and the page is completed. *)
Finish ==
    /\ pc = "finish"
    /\ pc' = "done"
    /\ UNCHANGED <<kerf, ply_sizes, panel_inputs, thickness_config, cfg_i, loop_i,
                   rectangles, original_dims, packer, sheets, sheet_waste, summary,
                   error>>

Next ==
    \/ BuildConfig
    \/ ExpandPieces
    \/ PackRects
    \/ CollectSheets
    \/ DrawSheets
    \/ AppendSummary
    \/ Finish

Spec == Init /\ [][Next]_vars

(***************************************************************************)
(* Properties.                                                             *)
(*                                                                         *)
(* While pc is "collect", "draw" or "summarise" the packer, rectangles and *)
(* original_dims are those of group loop_i; once its summary row is        *)
(* appended they stay those of group loop_i - 1 until the next expansion.  *)
(***************************************************************************)
InGroup == pc \in {"collect", "draw", "summarise"}

Summarised == pc \in {"expand", "finish", "done"} /\ summary # <<>>

Config == thickness_config[IF Summarised THEN loop_i - 1 ELSE loop_i]

ThkOf(cfg) == CHOOSE t \in ThkIdx : Thicknesses[t] = cfg.thk

Placements == RectList(packer)

OnBin(b) == SelectSeq(Placements, LAMBDA u : u[1] = b)

UsedBins == { Placements[i][1] : i \in 1..Len(Placements) }

NumPlaced == SumSeq([i \in 1..Len(sheets) |-> Len(sheets[i].rects)])

(* A padded rectangle that fits the sheet in neither orientation. *)
Unplaceable(r, W, H) ==
    /\ r[1] > 0 /\ r[2] > 0
    /\ ~ (r[1] <= W /\ r[2] <= H)
    /\ ~ (r[2] <= W /\ r[1] <= H)

Overlap(a, b) ==
    /\ a[2] < b[2] + b[4] /\ b[2] < a[2] + a[4]
    /\ a[3] < b[3] + b[5] /\ b[3] < a[3] + a[5]

(* C1: a group that ends with a summary row has as many placements on its  *)
(* sheets as rectangle instances were built, and every instance id is in   *)
(* exactly one placement.                                                  *)
C1_Conservation ==
    Summarised =>
        /\ NumPlaced = Len(rectangles)
        /\ \A i \in 1..Len(rectangles) :
              Cardinality({ k \in 1..Len(Placements) :
                              Placements[k][6] = rectangles[i][3] }) = 1

(* C2: when a rectangle of the group fits the sheet in neither             *)
(* orientation, the packing run of the group ends in an                    *)
(* UnplaceableRectangle error and never goes on to build sheets.           *)
C2_UnplaceableSurfaced ==
    (InGroup /\ \E i \in 1..Len(rectangles) :
                   Unplaceable(rectangles[i], Config.ply_width, Config.ply_height))
        => error = "UnplaceableRectangle"

(* C3: on every sheet, two distinct placements' padded rectangles          *)
(* [x, x + w) x [y, y + h) do not overlap.                                 *)
C3_NoOverlap ==
    \A i, j \in 1..Len(Placements) :
        (i # j /\ Placements[i][1] = Placements[j][1])
            => ~ Overlap(Placements[i], Placements[j])

C3_Witness ==
    /\ pc = "collect"
    /\ \E i, j \in 1..Len(Placements) : i # j /\ Placements[i][1] = Placements[j][1]

(* C4: every placement of the group lies within the ply size selected for  *)
(* the group's thickness: 0 <= x, 0 <= y, x + w <= ply width and           *)
(* y + h <= ply height.                                                    *)
C4_Containment ==
    InGroup =>
        /\ Config.ply_width = ply_sizes[ThkOf(Config)][1]
        /\ Config.ply_height = ply_sizes[ThkOf(Config)][2]
        /\ \A i \in 1..Len(Placements) :
              LET u == Placements[i]
              IN  /\ 0 <= u[2] /\ 0 <= u[3]
                  /\ u[2] + u[4] <= Config.ply_width
                  /\ u[3] + u[5] <= Config.ply_height

C4_Witness ==
    /\ pc = "collect"
    /\ \E i \in 1..Len(Placements) : Placements[i][2] > 0 \/ Placements[i][3] > 0

PaddedArea(b) ==
    SumSeq([i \in 1..Len(OnBin(b)) |-> OnBin(b)[i][4] * OnBin(b)[i][5]])

ReducedArea(b) ==
    SumSeq([i \in 1..Len(OnBin(b)) |->
               (OnBin(b)[i][4] - kerf) * (OnBin(b)[i][5] - kerf)])

C6_WasteBounds ==
    \A s \in 1..Len(sheet_waste) :
        /\ 0 <= sheet_waste[s].used_area
        /\ sheet_waste[s].used_area <= sheet_waste[s].total_area
        /\ 0 <= sheet_waste[s].shown /\ sheet_waste[s].shown <= 10000

(* C7: the average waste of a group's summary row is the mean of the       *)
(* per-sheet waste percentages, taken over exactly the bins that hold a    *)
(* placement.                                                              *)
C7_AverageWaste ==
    Summarised =>
        LET row == summary[Len(summary)]
            n == Cardinality(UsedBins)
        IN  /\ row.total_sheets = n
            /\ Len(sheet_waste) = n
            /\ { sheet_waste[s].sheet_id : s \in 1..Len(sheet_waste) } = UsedBins
            /\ row.approx_waste =
                  Fmt2Pct(SumSeq([s \in 1..Len(sheet_waste) |-> sheet_waste[s].waste]),
                          Config.ply_width * Config.ply_height * n)

C7_Witness ==
    /\ Summarised
    /\ Len(sheet_waste) = 2
    /\ sheet_waste[1].shown # sheet_waste[2].shown
    /\ summary[Len(summary)].approx_waste # sheet_waste[2].shown

(* C8: no rectangle derived from a zero or negative width or height is     *)
(* added to the packer.                                                    *)
C8_InvalidRejected ==
    \A i \in 1..Len(packer.avail_rect) :
        /\ packer.avail_rect[i][1] - kerf > 0
        /\ packer.avail_rect[i][2] - kerf > 0

CountOf(seq, e) == Cardinality({ i \in 1..Len(seq) : seq[i] = e })

(* C9: grouping the parsed lines and expanding the groups gives one        *)
(* instance per parsed line with the same multiset of dimensions; the ids  *)
(* are 0..n-1, original_dims[id] is the nominal size and the rectangle     *)
(* given to the packer is that size plus the kerf on both sides.           *)
C9_ExpansionRoundTrip ==
    pc = "pack" =>
        LET parsed == ParseInput(panel_inputs[ThkOf(Config)])
            n == Len(parsed)
        IN  /\ Len(original_dims) = n
            /\ Len(rectangles) = n
            /\ \A i \in 1..n : CountOf(original_dims, parsed[i]) = CountOf(parsed, parsed[i])
            /\ \A i \in 1..Len(rectangles) :
                  /\ rectangles[i][3] = i - 1
                  /\ rectangles[i][1] = original_dims[rectangles[i][3] + 1][1] + kerf
                  /\ rectangles[i][2] = original_dims[rectangles[i][3] + 1][2] + kerf

C9_Witness ==
    /\ pc = "pack"
    /\ \E k \in 1..Len(Config.pieces) : Config.pieces[k][3] >= 2

(* C10: a group with a parsed panel reaches its summary with at least one  *)
(* sheet, so the division by len(sheets) never fails.                      *)
C10_SummaryDefined ==
    /\ pc = "summarise" => Len(sheets) > 0
    /\ error # "ZeroDivisionError"

====
